---- MODULE Spec2Model ----
(***************************************************************************)
(* GtkPopoverMenu (gtk/gtkpopovermenu.c): a popover whose only direct      *)
(* child is a GtkStack; children added to the popover become named pages   *)
(* of the stack, and the "visible-submenu" property mirrors the stack's    *)
(* visible child name.                                                     *)
(*                                                                         *)
(* The GtkStack, GtkBin and GtkWidget code is not part of gtkpopovermenu.c.*)
(* The stack is modelled as an ordered list of (widget, name) pages with   *)
(* at most one visible page.  What the stack does on a duplicate page name *)
(* and on an unknown page name is left open by the specification, so both  *)
(* are choices fixed at construction (dupPolicy, missPolicy): one of the   *)
(* contracts listed in StackContracts.                                     *)
(***************************************************************************)
EXTENDS Integers, Sequences, FiniteSets, TLC

\* Number of distinct child widgets the caller has at hand.
NumWidgets == 3

\* A NULL GtkWidget pointer.
NoWidget == 0

\* The GtkStack created by gtk_popover_menu_init.
TheStack == NumWidgets + 1

Widgets == 1..NumWidgets

\* A NULL string (no widget name, no visible child name).
NULL == "NULL"

\* Page names used by callers; "main" and "submenu" are the names the code
\* itself hands out.
Names == {"main", "submenu", "more"}

\* The contracts the page container may have.  On a page name that is
\* already taken: the old page is replaced, or the new one is ignored, or
\* both are kept.  On a request to show an unknown page name: nothing
\* happens, or the display becomes blank.  A container that keeps pages
\* with equal names looks pages up by name and ignores unknown names.
StackContracts ==
  ({"replace", "ignore"} \X {"noop", "blank"}) \cup {<<"keep", "noop">>}

VARIABLES
  bin,        \* gtk_bin_get_child(popover): TheStack, NoWidget or a widget
  children,   \* the stack's pages, in insertion order: Seq([widget, name])
  visible,    \* the stack's visible child, or NoWidget
  mapped,     \* whether the popover is mapped
  notified,   \* "visible-submenu" notifications emitted by the last operation
  lastOp,     \* the last operation and its arguments
  dupPolicy,  \* what the stack does when a page name is already taken
  missPolicy  \* what the stack does when asked to show an unknown page name

vars == <<bin, children, visible, mapped, notified, lastOp, dupPolicy, missPolicy>>

(***************************************************************************)
(* GtkStack, as used by the popover menu.                                  *)
(***************************************************************************)

PageWidgets(ch) == {ch[i].widget : i \in 1..Len(ch)}

PageNames(ch) == {ch[i].name : i \in 1..Len(ch)}

\* Position of the first page satisfying a name / widget, 0 if none.
IndexOfName(ch, name) ==
  IF \E i \in 1..Len(ch) : ch[i].name = name
  THEN CHOOSE i \in 1..Len(ch) :
         /\ ch[i].name = name
         /\ \A j \in 1..(i - 1) : ch[j].name # name
  ELSE 0

IndexOfWidget(ch, w) ==
  IF \E i \in 1..Len(ch) : ch[i].widget = w
  THEN CHOOSE i \in 1..Len(ch) : ch[i].widget = w
  ELSE 0

\* gtk_stack_get_child_by_name: the first page with that name, or NULL.
gtk_stack_get_child_by_name(ch, name) ==
  IF IndexOfName(ch, name) = 0 THEN NoWidget ELSE ch[IndexOfName(ch, name)].widget

\* gtk_stack_get_visible_child_name: the visible page's name, or NULL.
gtk_stack_get_visible_child_name(ch, vis) ==
  IF IndexOfWidget(ch, vis) = 0 THEN NULL ELSE ch[IndexOfWidget(ch, vis)].name

\* The stack's set_visible_child: notify::visible-child-name is emitted only
\* when the visible child changes.
set_visible_child(ch, vis, w) ==
  [children |-> ch, visible |-> w, notes |-> IF w = vis THEN 0 ELSE 1]

\* gtk_stack_set_visible_child_name.
gtk_stack_set_visible_child_name(ch, vis, name) ==
  IF name = NULL
  THEN [children |-> ch, visible |-> vis, notes |-> 0]
  ELSE IF gtk_stack_get_child_by_name(ch, name) # NoWidget
  THEN set_visible_child(ch, vis, gtk_stack_get_child_by_name(ch, name))
  ELSE IF missPolicy = "blank"
  THEN set_visible_child(ch, vis, NoWidget)
  ELSE [children |-> ch, visible |-> vis, notes |-> 0]

RemoveAt(ch, i) == SubSeq(ch, 1, i - 1) \o SubSeq(ch, i + 1, Len(ch))

\* The stack's remove: the page goes away; when it was the visible one the
\* first remaining page (if any) becomes visible.
gtk_stack_remove(ch, vis, w) ==
  IF IndexOfWidget(ch, w) = 0
  THEN [children |-> ch, visible |-> vis, notes |-> 0]
  ELSE LET rest == RemoveAt(ch, IndexOfWidget(ch, w))
       IN IF vis = w
          THEN [children |-> rest,
                visible |-> IF Len(rest) = 0 THEN NoWidget ELSE rest[1].widget,
                notes |-> 1]
          ELSE [children |-> rest, visible |-> vis, notes |-> 0]

\* Appending a page; the first page of an empty display becomes visible.
StackAppend(ch, vis, w, name) ==
  LET ch2 == Append(ch, [widget |-> w, name |-> name])
  IN IF vis = NoWidget
     THEN [children |-> ch2, visible |-> w, notes |-> 1]
     ELSE [children |-> ch2, visible |-> vis, notes |-> 0]

\* gtk_stack_add_named.
gtk_stack_add_named(ch, vis, w, name) ==
  IF gtk_stack_get_child_by_name(ch, name) = NoWidget
  THEN StackAppend(ch, vis, w, name)
  ELSE IF dupPolicy = "ignore"
  THEN [children |-> ch, visible |-> vis, notes |-> 0]
  ELSE IF dupPolicy = "keep"
  THEN StackAppend(ch, vis, w, name)
  ELSE LET r == gtk_stack_remove(ch, vis, gtk_stack_get_child_by_name(ch, name))
           a == StackAppend(r.children, r.visible, w, name)
       IN [children |-> a.children, visible |-> a.visible, notes |-> r.notes + a.notes]

(***************************************************************************)
(* GtkPopoverMenu.  Every operation yields the popover's next              *)
(* [bin, children, visible] and the number of notify::visible-child-name   *)
(* emissions of the stack it caused.                                       *)
(***************************************************************************)

Unchanged == [bin |-> bin, children |-> children, visible |-> visible, notes |-> 0]

\* A stack result, with the bin child left alone.
OnStack(r) == [bin |-> bin, children |-> r.children, visible |-> r.visible, notes |-> r.notes]

\* Variant of visible_submenu_changed that notifies twice per call.
visible_submenu_changed_twice(emissions) == emissions * 2

\* visible_submenu_changed: the handler connected to the stack's
\* notify::visible-child-name; each call notifies "visible-submenu" once.
visible_submenu_changed(emissions) == emissions * 1

\* gtk_popover_menu_init.
gtk_popover_menu_init ==
  [bin |-> TheStack, children |-> <<>>, visible |-> NoWidget, notes |-> 0]

\* Variant of gtk_popover_menu_open_submenu that drops its argument and
\* always opens "main".
gtk_popover_menu_open_submenu_main(name) ==
  IF bin = TheStack
  THEN OnStack(gtk_stack_set_visible_child_name(children, visible, "main"))
  ELSE Unchanged

\* gtk_popover_menu_open_submenu.
gtk_popover_menu_open_submenu(name) ==
  IF bin = TheStack
  THEN OnStack(gtk_stack_set_visible_child_name(children, visible, name))
  ELSE Unchanged

\* gtk_popover_menu_add_submenu.
gtk_popover_menu_add_submenu(submenu, name) ==
  IF bin = TheStack
  THEN OnStack(gtk_stack_add_named(children, visible, submenu, name))
  ELSE Unchanged

\* Variant of gtk_popover_menu_add that tests for a "main" page before it
\* looks at the child's own name.
gtk_popover_menu_add_main_first(child, ownName) ==
  IF bin = NoWidget
  THEN [bin |-> child, children |-> children, visible |-> visible, notes |-> 0]
  ELSE LET name == IF bin = TheStack
                      /\ gtk_stack_get_child_by_name(children, "main") # NoWidget
                   THEN "submenu"
                   ELSE IF ownName # NULL
                   THEN ownName
                   ELSE "main"
       IN gtk_popover_menu_add_submenu(child, name)

\* Variant of gtk_popover_menu_add that never uses the child's own name.
gtk_popover_menu_add_unnamed(child, ownName) ==
  IF bin = NoWidget
  THEN [bin |-> child, children |-> children, visible |-> visible, notes |-> 0]
  ELSE LET name == IF bin = TheStack
                      /\ gtk_stack_get_child_by_name(children, "main") # NoWidget
                   THEN "submenu"
                   ELSE "main"
       IN gtk_popover_menu_add_submenu(child, name)

\* gtk_popover_menu_add; ownName is gtk_widget_get_name(child) or NULL.
gtk_popover_menu_add(child, ownName) ==
  IF bin = NoWidget
  THEN [bin |-> child, children |-> children, visible |-> visible, notes |-> 0]
  ELSE LET name == IF ownName # NULL
                   THEN ownName
                   ELSE IF bin = TheStack
                           /\ gtk_stack_get_child_by_name(children, "main") # NoWidget
                   THEN "submenu"
                   ELSE "main"
       IN gtk_popover_menu_add_submenu(child, name)

\* Variant of gtk_popover_menu_remove that forwards every removal to the
\* parent class.
gtk_popover_menu_remove_parent(child) ==
  [bin |-> NoWidget,
   children |-> IF bin = TheStack THEN <<>> ELSE children,
   visible |-> IF bin = TheStack THEN NoWidget ELSE visible,
   notes |-> 0]

\* Variant of gtk_popover_menu_remove with the test inverted (child != stack).
gtk_popover_menu_remove_inverted(child) ==
  IF child # bin
  THEN [bin |-> NoWidget,
        children |-> IF bin = TheStack THEN <<>> ELSE children,
        visible |-> IF bin = TheStack THEN NoWidget ELSE visible,
        notes |-> 0]
  ELSE Unchanged

\* gtk_popover_menu_remove.
gtk_popover_menu_remove(child) ==
  IF child = bin
  THEN [bin |-> NoWidget,
        children |-> IF bin = TheStack THEN <<>> ELSE children,
        visible |-> IF bin = TheStack THEN NoWidget ELSE visible,
        notes |-> 0]
  ELSE IF bin = TheStack
  THEN OnStack(gtk_stack_remove(children, visible, child))
  ELSE Unchanged

\* gtk_popover_menu_get_property (PROP_VISIBLE_SUBMENU).
gtk_popover_menu_get_property ==
  IF bin = TheStack THEN gtk_stack_get_visible_child_name(children, visible) ELSE NULL

\* Variant of gtk_popover_menu_set_property without the
\* PROP_VISIBLE_SUBMENU case.
gtk_popover_menu_set_property_default(value) == Unchanged

\* gtk_popover_menu_set_property (PROP_VISIBLE_SUBMENU).
gtk_popover_menu_set_property(value) ==
  IF bin = TheStack
  THEN OnStack(gtk_stack_set_visible_child_name(children, visible, value))
  ELSE Unchanged

\* Variant of gtk_popover_menu_map that does not reset the page.
gtk_popover_menu_map_noreset == Unchanged

\* gtk_popover_menu_map: the parent's map, then open "main".
gtk_popover_menu_map == gtk_popover_menu_open_submenu("main")

\* gtk_popover_menu_unmap: open "main", then the parent's unmap.
gtk_popover_menu_unmap == gtk_popover_menu_open_submenu("main")

(***************************************************************************)
(* The state machine.                                                      *)
(***************************************************************************)

Op(op, w, name) == [op |-> op, widget |-> w, name |-> name]

Apply(r) ==
  /\ bin' = r.bin
  /\ children' = r.children
  /\ visible' = r.visible
  /\ notified' = visible_submenu_changed(r.notes)

\* Widgets that have no parent and so may be added.
Free == Widgets \ (PageWidgets(children) \cup {bin})

Init ==
  /\ bin = gtk_popover_menu_init.bin
  /\ children = gtk_popover_menu_init.children
  /\ visible = gtk_popover_menu_init.visible
  /\ mapped = FALSE
  /\ notified = 0
  /\ lastOp = Op("new", NoWidget, NULL)
  /\ \E c \in StackContracts :
       /\ dupPolicy = c[1]
       /\ missPolicy = c[2]

AddChild ==
  \E w \in Free, ownName \in Names \cup {NULL} :
    /\ Apply(gtk_popover_menu_add(w, ownName))
    /\ lastOp' = Op("addChild", w, ownName)
    /\ UNCHANGED <<mapped, dupPolicy, missPolicy>>

AddSubmenu ==
  \E w \in Free, name \in Names :
    /\ Apply(gtk_popover_menu_add_submenu(w, name))
    /\ lastOp' = Op("addSubmenu", w, name)
    /\ UNCHANGED <<mapped, dupPolicy, missPolicy>>

RemoveChild ==
  \E c \in (PageWidgets(children) \cup {bin}) \ {NoWidget} :
    /\ Apply(gtk_popover_menu_remove(c))
    /\ lastOp' = Op("removeChild", c, NULL)
    /\ UNCHANGED <<mapped, dupPolicy, missPolicy>>

OpenSubmenu ==
  \E name \in Names :
    /\ Apply(gtk_popover_menu_open_submenu(name))
    /\ lastOp' = Op("openSubmenu", NoWidget, name)
    /\ UNCHANGED <<mapped, dupPolicy, missPolicy>>

SetVisibleSubmenu ==
  \E name \in Names :
    /\ Apply(gtk_popover_menu_set_property(name))
    /\ lastOp' = Op("setVisibleSubmenu", NoWidget, name)
    /\ UNCHANGED <<mapped, dupPolicy, missPolicy>>

Map ==
  /\ ~mapped
  /\ mapped' = TRUE
  /\ Apply(gtk_popover_menu_map)
  /\ lastOp' = Op("map", NoWidget, NULL)
  /\ UNCHANGED <<dupPolicy, missPolicy>>

Unmap ==
  /\ mapped
  /\ Apply(gtk_popover_menu_unmap)
  /\ mapped' = FALSE
  /\ lastOp' = Op("unmap", NoWidget, NULL)
  /\ UNCHANGED <<dupPolicy, missPolicy>>

Next ==
  \/ AddChild
  \/ AddSubmenu
  \/ RemoveChild
  \/ OpenSubmenu
  \/ SetVisibleSubmenu
  \/ Map
  \/ Unmap

Spec == Init /\ [][Next]_vars

(***************************************************************************)
(* Properties.                                                             *)
(***************************************************************************)

HasPage(ch, name) == gtk_stack_get_child_by_name(ch, name) # NoWidget

UniqueNames(ch) ==
  \A i, j \in 1..Len(ch) : i # j => ch[i].name # ch[j].name

NameOf(ch, w) == ch[IndexOfWidget(ch, w)].name

AddOps == {"addChild", "addSubmenu"}
VisibleOps == {"openSubmenu", "setVisibleSubmenu", "map", "unmap"}

\* C1: after an addChild or addSubmenu on the page container, the added
\* child and every child that was held before are held by the container,
\* and no two pages share a page name.
C1_UniqueNames ==
  [][(lastOp'.op \in AddOps /\ bin = TheStack)
       => /\ PageWidgets(children) \cup {lastOp'.widget} \subseteq PageWidgets(children')
          /\ UniqueNames(children')]_vars

\* C2: addChild of a child with no name of its own stores it under "main"
\* when no page named "main" exists and under "submenu" when one exists,
\* and the child is afterwards retrievable under that name.
C2_DefaultName ==
  [][(lastOp'.op = "addChild" /\ lastOp'.name = NULL /\ bin = TheStack)
       => gtk_stack_get_child_by_name(
            children', IF HasPage(children, "main") THEN "submenu" ELSE "main")
          = lastOp'.widget]_vars

\* C3 (as claimed): after every map and unmap the visible page name is
\* "main", whatever pages have been added.
C3_MapResetsAlways ==
  lastOp.op \in {"map", "unmap"} => gtk_popover_menu_get_property = "main"

\* C3: after every map and unmap of a popover whose page container holds a
\* page named "main", the visible page name is "main".
C3_MapResets ==
  (lastOp.op \in {"map", "unmap"} /\ bin = TheStack /\ HasPage(children, "main"))
    => gtk_popover_menu_get_property = "main"

C3_Witness ==
  /\ lastOp.op = "map"
  /\ bin = TheStack
  /\ Len(children) >= 2
  /\ notified = 1
  /\ gtk_popover_menu_get_property = "main"

\* C4 (as claimed): in every reachable state the direct child of the
\* popover is the page container created at construction.
C4_StackAlways == bin = TheStack

\* C4: the direct child of the popover is the page container created at
\* construction, and stays so under every operation other than removeChild
\* of the page container itself.
C4_StackKept ==
  /\ bin = TheStack
  /\ [][(bin = TheStack /\ ~(lastOp'.op = "removeChild" /\ lastOp'.widget = TheStack))
          => bin' = TheStack]_vars

C4_Witness ==
  /\ lastOp.op = "removeChild"
  /\ lastOp.widget \in Widgets
  /\ bin = TheStack
  /\ mapped

\* C5 (as claimed): after openSubmenu(X) the getter returns X, for every X.
C5_OpenAnyName ==
  lastOp.op = "openSubmenu" => gtk_popover_menu_get_property = lastOp.name

\* C5: after openSubmenu(X), for X the name of an existing page, the
\* visible-submenu getter returns X.
C5_OpenExisting ==
  (lastOp.op = "openSubmenu" /\ bin = TheStack /\ HasPage(children, lastOp.name))
    => gtk_popover_menu_get_property = lastOp.name

C5_Witness ==
  /\ lastOp.op = "openSubmenu"
  /\ lastOp.name = "more"
  /\ notified = 1
  /\ gtk_popover_menu_get_property = "more"

C7_OwnNameAlways ==
  (lastOp.op = "addChild" /\ lastOp.name # NULL /\ bin = TheStack)
    => gtk_stack_get_child_by_name(children, lastOp.name) = lastOp.widget

\* C7: addChild of a child named X, when no page named X exists yet, stores
\* it under X and it is retrievable under X, whatever other pages exist.
C7_OwnName ==
  [][(/\ lastOp'.op = "addChild"
      /\ lastOp'.name # NULL
      /\ bin = TheStack
      /\ ~HasPage(children, lastOp'.name))
       => /\ gtk_stack_get_child_by_name(children', lastOp'.name) = lastOp'.widget
          /\ NameOf(children', lastOp'.widget) = lastOp'.name]_vars

C7_Witness ==
  /\ lastOp.op = "addChild"
  /\ lastOp.name = "more"
  /\ HasPage(children, "main")
  /\ HasPage(children, "submenu")
  /\ gtk_stack_get_child_by_name(children, "more") = lastOp.widget

\* C8: removeChild of a page removes exactly that page: every other page
\* stays under its name, every other name maps to the same widget, and the
\* page container stays the child of the popover.
C8_RemoveFrame ==
  [][(lastOp'.op = "removeChild" /\ bin = TheStack /\ lastOp'.widget # TheStack)
       => /\ bin' = TheStack
          /\ PageWidgets(children') = PageWidgets(children) \ {lastOp'.widget}
          /\ \A w \in PageWidgets(children') : NameOf(children', w) = NameOf(children, w)
          /\ \A n \in Names \ {NameOf(children, lastOp'.widget)} :
               gtk_stack_get_child_by_name(children', n)
                 = gtk_stack_get_child_by_name(children, n)]_vars

C8_Witness ==
  /\ lastOp.op = "removeChild"
  /\ lastOp.widget \in Widgets
  /\ bin = TheStack
  /\ Len(children) = 2
  /\ UniqueNames(children)

\* C9: setting visible-submenu to the name N of an existing page and reading
\* it back yields N, mapped or not.
C9_RoundTrip ==
  (lastOp.op = "setVisibleSubmenu" /\ bin = TheStack /\ HasPage(children, lastOp.name))
    => gtk_popover_menu_get_property = lastOp.name

C9_Witness ==
  /\ lastOp.op = "setVisibleSubmenu"
  /\ lastOp.name = "submenu"
  /\ notified = 1
  /\ ~mapped
  /\ gtk_popover_menu_get_property = "submenu"

\* C10: with the page container present, addSubmenu(widget, N) and addChild
\* of a child whose own name is N yield the same pages, the same
\* name-to-widget mapping and the same visible page.
C10_AddEquivalent ==
  bin = TheStack
    => \A w \in Free, n \in Names :
         gtk_popover_menu_add(w, n) = gtk_popover_menu_add_submenu(w, n)

C10_Witness ==
  /\ lastOp.op = "addSubmenu"
  /\ lastOp.name = "submenu"
  /\ bin = TheStack
  /\ ~HasPage(children, "main")
  /\ Free # {}
  /\ gtk_stack_get_child_by_name(children, "submenu") = lastOp.widget

====
